---- MODULE Spec2Model ----
(***************************************************************************)
(* Model of nest.go: the poll loop of the Nest AC troubleshooter, its      *)
(* fault detector, the confirmed off/on recovery sequence, the webhook     *)
(* goroutine it launches, and the API client functions nestGet, nestPut     *)
(* and webhook, each computed from the HTTP exchange it performs.          *)
(*                                                                         *)
(* Abstractions: the clock (timeAsStr) is one constant string; the output  *)
(* file is append-only and log holds the rows written through the handle   *)
(* that outputFile currently holds (every write of the program goes        *)
(* through that variable), each row the sequence of its tab-separated      *)
(* fields; the output path is writable (os.Create and os.OpenFile          *)
(* succeed); config.Debug is false.                                        *)
(***************************************************************************)
EXTENDS Integers, Sequences, FiniteSets, TLC

\* ---------------------------------------------------------------- bounds
\* Calls to the Nest API explored in one run: the nestGet of every tick and
\* every nestPut of the recovery sequences.
MaxCalls == 5
\* Temperatures reported by the device range over 0..MaxTemp.
MaxTemp == 1

\* ------------------------------------------------------------ data model
\* hvac_mode values the device reports. Any JSON string passes nestGet's type
\* assertion: two modes of the API are explored and the empty string, which
\* is also the HvacMode of the NestData{} returned beside every error.
Modes == {"off", "cool", ""}

Temps == 0 .. MaxTemp

NestData == [CurrentTemperature : Temps, HvacMode : Modes, IsCooling : BOOLEAN]

\* NestData{}: Go's zero value, returned beside every error.
ZeroData == [CurrentTemperature |-> 0, HvacMode |-> "", IsCooling |-> FALSE]

\* NestData{HvacMode: "unrestarted"}: the value both confirmation loops start from.
Unrestarted == [CurrentTemperature |-> 0, HvacMode |-> "unrestarted", IsCooling |-> FALSE]

\* What one HTTP exchange with the Nest read endpoint can produce.
\*   neterr     client.Do fails with no response (resp == nil)
\*   redirects  CheckRedirect stops the request: error with a non-nil response
\*   non200     a response whose status is not 200
\*   notjson    200, the body does not parse as JSON
\*   notobject  200, the body is JSON but not an object
\*   nopath     200, devices/thermostats/<id> is absent
\*   nofield    200, a field of the thermostat is missing or mistyped
\*   ok         200, a well-formed thermostat object
FailKinds == {"neterr", "redirects", "non200", "notjson", "notobject", "nopath", "nofield"}

GetResponses ==
    {[kind |-> k, data |-> ZeroData] : k \in FailKinds}
        \cup {[kind |-> "ok", data |-> d] : d \in NestData}

\* What the PUT exchange of nestPut and the exchange of webhook can produce.
PutResponses == {"neterr", "redirects", "non200", "ok"}

WebhookResponses == {"neterr", "redirects", "non200", "ok"}

\* The exchanges of one nestPut call: the PUT and, only when the PUT was
\* answered with 200, the read that follows it.
NoExchange == [kind |-> "none", data |-> ZeroData]

PutExchanges ==
    {<<p, NoExchange>> : p \in PutResponses \ {"ok"}}
        \cup {<<"ok", r>> : r \in GetResponses}

\* Results of the client functions: a returned value, a returned error, or a
\* run-time panic (nil dereference, failed type assertion), which ends the process.
Ok(d) == [kind |-> "ok", err |-> "", data |-> d]

Err(text) == [kind |-> "err", err |-> text, data |-> ZeroData]

Panic == [kind |-> "panic", err |-> "", data |-> ZeroData]

\* ------------------------------------------------------------ API client
nestGet(r) ==
    CASE r.kind \in {"neterr", "redirects"} -> Err("Could not communicate with Nest")
      [] r.kind = "non200" -> Err("Problem getting an answer from Nest")
      [] r.kind = "notjson" -> Err("Could not process JSON file from Nest")
      [] r.kind = "notobject" -> Panic
      [] r.kind = "nopath" -> Panic
      [] r.kind = "nofield" -> Panic
      [] OTHER -> Ok(r.data)

\* defer resp.Body.Close() runs before err is looked at: with no response it
\* dereferences nil.
nestPut(p, r) ==
    CASE p = "neterr" -> Panic
      [] p = "redirects" -> Err("Could not communicate with Nest")
      [] p = "non200" -> Err("Problem getting an answer from Nest")
      [] OTHER -> nestGet(r)

webhook(w) ==
    CASE w = "neterr" -> Panic
      [] w \in {"redirects", "non200"} -> Err("Problem communicating with webhook")
      [] OTHER -> Ok(ZeroData)

\* ------------------------------------------------------------ log rows
timeAsStr == "ts"

Digit(d) ==
    CASE d = 0 -> "0" [] d = 1 -> "1" [] d = 2 -> "2" [] d = 3 -> "3" [] d = 4 -> "4"
      [] d = 5 -> "5" [] d = 6 -> "6" [] d = 7 -> "7" [] d = 8 -> "8" [] OTHER -> "9"

RECURSIVE FmtNat(_)
FmtNat(n) == IF n < 10 THEN Digit(n) ELSE FmtNat(n \div 10) \o Digit(n % 10)

\* %d
FmtInt(n) == IF n < 0 THEN "-" \o FmtNat(0 - n) ELSE FmtNat(n)

\* %t
FmtBool(b) == IF b THEN "true" ELSE "false"

\* "%s\t%t\t%d\n"
SampleRow(d) == <<timeAsStr, FmtBool(d.IsCooling), FmtInt(d.CurrentTemperature)>>

\* "%s\t\t\t%s\n"
NoteRow(note) == <<timeAsStr, "", "", note>>

\* (*os.File).WriteString: on a closed file it returns an error, which
\* every caller drops, and writes nothing.
WriteString(f, l, row) == IF f.closed THEN l ELSE Append(l, row)

\* ------------------------------------------------------------ detector
RestartNeededOrEqual(lastC, lastT, d) ==
    lastC = TRUE /\ d.IsCooling = TRUE /\ lastT <= d.CurrentTemperature

RestartNeeded(lastC, lastT, d) ==
    lastC = TRUE /\ d.IsCooling = TRUE /\ lastT < d.CurrentTemperature

\* The two fields of a sample that the baseline carries.
Reading(d) == [IsCooling |-> d.IsCooling, CurrentTemperature |-> d.CurrentTemperature]

\* ------------------------------------------------------------ state
VARIABLES
    config,         \* the variable config of main(), passed to loop()
    exitCode,       \* exit status once main() has returned, -1 before
    pc,             \* where the main goroutine is: in main(), or in loop()
    outputFile,     \* the variable outputFile of loop(): fd numbers the tick that opened it
    lastTemp,       \* baseline temperature carried across ticks
    lastIsCooling,  \* baseline cooling flag carried across ticks
    thermostatData, \* the sample read by the current tick
    log,            \* rows appended to the output file through the handle in outputFile
    hook,           \* hook[t]: the goroutine launched by tick t: "none", "post", "get", "done"
    fresh,          \* history: the baseline was equal to the sample obtained most recently
                    \* when that sample arrived, and has not been assigned since
    offPuts,        \* history: nestPut(config, "off") calls of the current tick
    onPuts,         \* history: nestPut(config, original mode) calls of the current tick
    puts,           \* history: the hvacMode argument of each nestPut call of the current tick
    calls           \* history: nestGet calls of the ticks and nestPut calls so far

vars ==
    <<config, exitCode, pc, outputFile, lastTemp, lastIsCooling, thermostatData, log, hook,
      fresh, offPuts, onPuts, puts, calls>>

Ticks == 1 .. MaxCalls

\* The baseline, as the two fields of a sample.
Baseline == [IsCooling |-> lastIsCooling, CurrentTemperature |-> lastTemp]

Header == <<"timestamp", "cooling", "temp", "notes">>

\* Where the goroutine stands once launched, and once its POST step is over:
\* at the next webhook call whose URL is configured ("post", "get"), or
\* returned ("done").
AfterPost == IF config.WebhookGet # "" THEN "get" ELSE "done"

AfterLaunch == IF config.WebhookPost # "" THEN "post" ELSE AfterPost

\* NestConfig{Minutes:10, Debug:false, Output:"nest.tsv", LastOutput:"nest_last.json"}
DefaultConfig ==
    [Token |-> "", ThermostatID |-> "", Minutes |-> 10, Output |-> "nest.tsv",
     LastOutput |-> "nest_last.json", Debug |-> FALSE, WebhookPost |-> "", WebhookGet |-> ""]

\* The state in which loop() starts its first iteration: header written, file
\* closed, baseline seeded.
LoopStart ==
    /\ pc = "open"
    /\ exitCode = -1
    /\ outputFile = [fd |-> 0, closed |-> TRUE]
    /\ lastTemp = 0
    /\ lastIsCooling = FALSE
    /\ thermostatData = ZeroData
    /\ log = <<Header>>
    /\ hook = [t \in Ticks |-> "none"]
    /\ fresh = FALSE
    /\ offPuts = 0
    /\ onPuts = 0
    /\ puts = <<>>
    /\ calls = 0

\* loop() called by main() with a thermostat id, a token, the default
\* interval and each combination of webhooks.
Init ==
    /\ config \in {[DefaultConfig EXCEPT !.ThermostatID = "id", !.Token = "tok",
                                        !.WebhookPost = wp, !.WebhookGet = wg] :
                       wp \in {"", "http://post"}, wg \in {"", "http://get"}}
    /\ LoopStart

\* ------------------------------------------------------------ poll loop
WaitingNever(d, mode) == FALSE

WaitingUnlessFailed(d, mode) == d.HvacMode # mode /\ d.HvacMode # ""

\* The test of both confirmation loops: the reply's mode is not the one asked for.
Waiting(d, mode) == d.HvacMode # mode

AdvanceTempOnly(d) ==
    /\ lastTemp' = d.CurrentTemperature
    /\ UNCHANGED lastIsCooling

AdvanceCoolingOnly(d) ==
    /\ lastIsCooling' = d.IsCooling
    /\ UNCHANGED lastTemp

\* A tick without recovery: the baseline becomes the sample just read.
Advance(d) ==
    /\ lastIsCooling' = d.IsCooling
    /\ lastTemp' = d.CurrentTemperature

\* os.OpenFile at the top of an iteration.
OpenFile ==
    /\ pc = "open"
    /\ calls < MaxCalls
    /\ outputFile' = [fd |-> outputFile.fd + 1, closed |-> FALSE]
    /\ log' = <<>>
    /\ pc' = "get"
    /\ UNCHANGED <<config, exitCode, puts, lastTemp, lastIsCooling, thermostatData, hook,
                   fresh, offPuts, onPuts, calls>>

\* nestGet, the row for its result, the detector, and either the baseline
\* update or the entry into the recovery sequence (go func() included).
Get(r) ==
    /\ pc = "get"
    /\ calls < MaxCalls
    /\ calls' = calls + 1
    /\ LET res == nestGet(r)
           d == res.data
           sampled == WriteString(outputFile, log, SampleRow(d))
       IN  CASE res.kind = "panic" ->
                  /\ pc' = "crashed"
                  /\ UNCHANGED <<lastTemp, lastIsCooling, thermostatData, log, hook, fresh>>
             [] res.kind = "err" ->
                  /\ log' = WriteString(outputFile, log, NoteRow(res.err))
                  /\ pc' = "close"
                  /\ UNCHANGED <<lastTemp, lastIsCooling, thermostatData, hook, fresh>>
             [] OTHER ->
                  /\ IF RestartNeeded(lastIsCooling, lastTemp, d)
                     THEN /\ log' = WriteString(outputFile, sampled, NoteRow("RESTARTING SYSTEM"))
                          /\ hook' = [hook EXCEPT ![outputFile.fd] = AfterLaunch]
                          /\ thermostatData' = d
                          /\ pc' = "off"
                          /\ UNCHANGED <<lastTemp, lastIsCooling>>
                     ELSE /\ log' = sampled
                          /\ Advance(d)
                          /\ pc' = "close"
                          /\ UNCHANGED <<thermostatData, hook>>
                  /\ fresh' = (Baseline' = Reading(d))
    /\ UNCHANGED <<config, exitCode, puts, outputFile, offPuts, onPuts>>

\* The end of the recovery sequence: the baseline is taken from restartData.
Finish(restartData) ==
    /\ lastIsCooling' = restartData.IsCooling
    /\ lastTemp' = restartData.CurrentTemperature
    /\ pc' = "close"

\* One iteration of the shutoff loop, its loop test, and the first test of
\* the restart loop when the shutoff loop ends.
PutOff(p, r) ==
    /\ pc = "off"
    /\ calls < MaxCalls
    /\ calls' = calls + 1
    /\ offPuts' = offPuts + 1
    /\ puts' = Append(puts, "off")
    /\ LET res == nestPut(p, r)
           shutoffData == res.data
           row == IF res.kind = "err"
                  THEN NoteRow("Error turning system off:\n" \o res.err)
                  ELSE IF shutoffData.HvacMode # "off"
                       THEN NoteRow("RESTART: waiting on turn off")
                       ELSE NoteRow("RESTART: system turned off")
       IN  IF res.kind = "panic"
           THEN /\ pc' = "crashed"
                /\ UNCHANGED <<lastTemp, lastIsCooling, log, fresh>>
           ELSE /\ log' = WriteString(outputFile, log, row)
                /\ IF Waiting(shutoffData, "off")
                   THEN pc' = "off" /\ UNCHANGED <<lastTemp, lastIsCooling>>
                   ELSE IF Waiting(Unrestarted, thermostatData.HvacMode)
                        THEN pc' = "on" /\ UNCHANGED <<lastTemp, lastIsCooling>>
                        ELSE Finish(Unrestarted)
                /\ fresh' = IF res.kind = "ok" THEN Baseline' = Reading(shutoffData)
                             ELSE fresh /\ Baseline' = Baseline
    /\ UNCHANGED <<config, exitCode, outputFile, thermostatData, hook, onPuts>>

OriginalModeCool == "cool"

\* The mode the restart loop writes and waits for.
OriginalMode == thermostatData.HvacMode

\* One iteration of the restart loop and its loop test.
PutOn(p, r) ==
    /\ pc = "on"
    /\ calls < MaxCalls
    /\ calls' = calls + 1
    /\ onPuts' = onPuts + 1
    /\ puts' = Append(puts, OriginalMode)
    /\ LET res == nestPut(p, r)
           restartData == res.data
           row == IF res.kind = "err"
                  THEN NoteRow("Error turning system back on:\n" \o res.err)
                  ELSE IF restartData.HvacMode # thermostatData.HvacMode
                       THEN NoteRow("RESTART: waiting on turn on")
                       ELSE NoteRow("RESTART: system turned on")
       IN  IF res.kind = "panic"
           THEN /\ pc' = "crashed"
                /\ UNCHANGED <<lastTemp, lastIsCooling, log, fresh>>
           ELSE /\ log' = WriteString(outputFile, log, row)
                /\ IF Waiting(restartData, thermostatData.HvacMode)
                   THEN pc' = "on" /\ UNCHANGED <<lastTemp, lastIsCooling>>
                   ELSE Finish(restartData)
                /\ fresh' = IF res.kind = "ok" THEN Baseline' = Reading(restartData)
                             ELSE fresh /\ Baseline' = Baseline
    /\ UNCHANGED <<config, exitCode, outputFile, thermostatData, hook, offPuts>>

\* An iteration that ends only once its goroutine has returned.
CloseFileJoined ==
    /\ pc = "close"
    /\ hook[outputFile.fd] \in {"none", "done"}
    /\ outputFile' = [outputFile EXCEPT !.closed = TRUE]
    /\ thermostatData' = ZeroData
    /\ offPuts' = 0
    /\ onPuts' = 0
    /\ puts' = <<>>
    /\ pc' = "sleep"
    /\ UNCHANGED <<config, exitCode, lastTemp, lastIsCooling, log, hook, fresh, calls>>

\* outputFile.Sync(); outputFile.Close(): the iteration's locals go out of scope.
CloseFile ==
    /\ pc = "close"
    /\ outputFile' = [outputFile EXCEPT !.closed = TRUE]
    /\ thermostatData' = ZeroData
    /\ offPuts' = 0
    /\ onPuts' = 0
    /\ puts' = <<>>
    /\ pc' = "sleep"
    /\ UNCHANGED <<config, exitCode, lastTemp, lastIsCooling, log, hook, fresh, calls>>

\* time.Sleep returns.
Sleep ==
    /\ pc = "sleep"
    /\ pc' = "open"
    /\ UNCHANGED <<config, exitCode, puts, outputFile, lastTemp, lastIsCooling,
                   thermostatData, log, hook, fresh, offPuts, onPuts, calls>>

\* ------------------------------------------------------------ webhook goroutine
\* One webhook call of the goroutine launched by tick g and, on success, a
\* row written through whatever outputFile holds at that moment. A panic in
\* the goroutine ends the process.
HookStep(g, w, note, next) ==
    /\ pc # "crashed"
    /\ LET res == webhook(w)
       IN  CASE res.kind = "panic" ->
                  /\ pc' = "crashed"
                  /\ UNCHANGED <<hook, log>>
             [] res.kind = "err" ->
                  /\ hook' = [hook EXCEPT ![g] = next]
                  /\ UNCHANGED <<pc, log>>
             [] OTHER ->
                  /\ log' = WriteString(outputFile, log, NoteRow(note))
                  /\ hook' = [hook EXCEPT ![g] = next]
                  /\ UNCHANGED pc
    /\ UNCHANGED <<config, exitCode, puts, outputFile, lastTemp, lastIsCooling, thermostatData,
                   fresh, offPuts, onPuts, calls>>

HookPost(g, w) ==
    /\ hook[g] = "post"
    /\ HookStep(g, w, "webhook-post performed", AfterPost)

HookGet(g, w) ==
    /\ hook[g] = "get"
    /\ HookStep(g, w, "webhook-get performed", "done")

\* ------------------------------------------------------------ main()
\* The zero NestConfig, which json.Unmarshal fills and processConfig returns
\* with an error.
ZeroConfig ==
    [Token |-> "", ThermostatID |-> "", Minutes |-> 0, Output |-> "",
     LastOutput |-> "", Debug |-> FALSE, WebhookPost |-> "", WebhookGet |-> ""]

\* allowedSingles and argTranslate: "" stands for a key the map does not hold.
allowedSingles == {"help", "-h", "--help"}

argTranslate(argName) ==
    CASE argName \in {"--thermostat", "-id"} -> "thermostatID"
      [] argName \in {"--token", "-t"} -> "token"
      [] argName \in {"--minute", "-m"} -> "minute"
      [] argName \in {"--config", "-c"} -> "config"
      [] argName \in {"--output", "-o"} -> "output"
      [] argName \in {"--webhook-post", "-wp"} -> "webhook-post"
      [] argName \in {"--webhook-get", "-wg"} -> "webhook-get"
      [] OTHER -> ""

NestCommands ==
    {"thermostatID", "token", "minute", "config", "output", "webhook-post", "webhook-get"}

\* strconv.Atoi on the strings the command lines below carry.
Atoi(str) ==
    CASE str = "0" -> [err |-> FALSE, n |-> 0]
      [] str = "3" -> [err |-> FALSE, n |-> 3]
      [] str = "-2" -> [err |-> FALSE, n |-> 0 - 2]
      [] OTHER -> [err |-> TRUE, n |-> 0]

\* url.ParseRequestURI: TRUE when it returns an error.
ParseRequestURIFails(rawurl) == rawurl \notin {"http://post", "http://get"}

\* What the named file holds: no readable file ("unreadable"), bytes that are
\* not JSON ("unparseable"), or a JSON object ("json") given as the NestConfig
\* it unmarshals into (absent keys are zero values).
FileContents ==
    {[kind |-> k, value |-> ZeroConfig] : k \in {"unreadable", "unparseable"}} \cup
    {[kind |-> "json",
      value |-> [ZeroConfig EXCEPT !.ThermostatID = id, !.Token = tok, !.Minutes = m]] :
        id \in {"", "id"}, tok \in {"", "tok"}, m \in {0 - 1, 0, 3}}

\* processConfig with every value below 1 taken from the file as it is.
processConfigUnfloored(content, c) ==
    IF content.kind # "json"
    THEN [err |-> TRUE, config |-> ZeroConfig]
    ELSE [err |-> FALSE,
          config |-> [content.value EXCEPT
                        !.Output = IF @ = "" THEN c.Output ELSE @,
                        !.LastOutput = IF @ = "" THEN c.LastOutput ELSE @]]

processConfig(content, c) ==
    IF content.kind # "json"
    THEN [err |-> TRUE, config |-> ZeroConfig]
    ELSE [err |-> FALSE,
          config |-> [content.value EXCEPT
                        !.Minutes = IF @ < 1 THEN c.Minutes ELSE @,
                        !.Output = IF @ = "" THEN c.Output ELSE @,
                        !.LastOutput = IF @ = "" THEN c.LastOutput ELSE @]]

\* The argument loop of main(): Args[1] is os.Args[0], so Go's os.Args[i] is
\* Args[i + 1]. The result holds argMap, or unexpected at the first name that
\* is a single or that argTranslate does not hold.
RECURSIVE ParseArgs(_, _, _)
ParseArgs(Args, i, argMap) ==
    IF ~(i < Len(Args) - 1)
    THEN [unexpected |-> FALSE, argMap |-> argMap]
    ELSE LET argName == Args[i + 1]
         IN  IF argName \in allowedSingles \/ argTranslate(argName) = ""
             THEN [unexpected |-> TRUE, argMap |-> argMap]
             ELSE ParseArgs(Args, i + 2,
                            [argMap EXCEPT ![argTranslate(argName)] = Args[i + 2]])

\* main() returns without calling loop(): the process ends with status 0.
Return == [loop |-> FALSE, status |-> 0, config |-> DefaultConfig]

\* main() up to the call of loop(), as a function of os.Args and of what the
\* file named by --config holds.
main(Args, content) ==
    IF Len(Args) = 1 THEN Return
    ELSE IF Len(Args) = 2 THEN Return
    ELSE LET parsed == ParseArgs(Args, 1, [c \in NestCommands |-> ""])
             argMap == parsed.argMap
    IN  IF parsed.unexpected THEN Return
    ELSE LET read == processConfig(content, DefaultConfig)
             c1 == IF argMap["config"] # "" THEN read.config ELSE DefaultConfig
             c2 == IF argMap["thermostatID"] # ""
                   THEN [c1 EXCEPT !.ThermostatID = argMap["thermostatID"]] ELSE c1
             c3 == IF argMap["token"] # "" THEN [c2 EXCEPT !.Token = argMap["token"]] ELSE c2
             minutesInt == Atoi(argMap["minute"])
             c4 == IF argMap["minute"] # "" THEN [c3 EXCEPT !.Minutes = minutesInt.n] ELSE c3
             c5 == IF argMap["output"] # "" THEN [c4 EXCEPT !.Output = argMap["output"]] ELSE c4
             c6 == IF argMap["webhook-post"] # ""
                   THEN [c5 EXCEPT !.WebhookPost = argMap["webhook-post"]] ELSE c5
             c7 == IF argMap["webhook-get"] # ""
                   THEN [c6 EXCEPT !.WebhookGet = argMap["webhook-get"]] ELSE c6
    IN  IF argMap["config"] # "" /\ read.err THEN Return
    ELSE IF argMap["thermostatID"] = "" /\ c1.ThermostatID = "" THEN Return
    ELSE IF argMap["token"] = "" /\ c2.Token = "" THEN Return
    ELSE IF argMap["minute"] # "" /\ minutesInt.err THEN Return
    ELSE IF argMap["minute"] # "" /\ minutesInt.n < 1 THEN Return
    ELSE IF argMap["webhook-post"] # "" /\ ParseRequestURIFails(argMap["webhook-post"])
         THEN Return
    ELSE IF argMap["webhook-get"] # "" /\ ParseRequestURIFails(argMap["webhook-get"])
         THEN Return
    ELSE [loop |-> TRUE, status |-> 0 - 1, config |-> c7]

\* One option of a command line: nothing when the value is "".
Option(name, value) == IF value = "" THEN <<>> ELSE <<name, value>>

\* The command lines main() is run with: the bare program name, one single
\* argument, and every choice of options with or without an unknown one.
CommandLines ==
    {<<"nest">>, <<"nest", "help">>, <<"nest", "--token">>} \cup
    {<<"nest">> \o Option("--bogus", bogus) \o Option("--thermostat", id)
        \o Option("-t", tok) \o Option("--minute", m) \o Option("-c", file)
        \o Option("--webhook-post", wp) \o Option("-wg", wg) :
        bogus \in {"", "x"}, id \in {"", "id"}, tok \in {"", "tok"},
        m \in {"", "abc", "0", "3"}, file \in {"", "nest.json"},
        wp \in {"", "not a url", "http://post"}, wg \in {"", "not a url", "http://get"}}

\* The process before main() runs.
InitMain ==
    /\ pc = "main"
    /\ exitCode = -1
    /\ config = DefaultConfig
    /\ outputFile = [fd |-> 0, closed |-> TRUE]
    /\ lastTemp = 0
    /\ lastIsCooling = FALSE
    /\ thermostatData = ZeroData
    /\ log = <<>>
    /\ hook = [t \in Ticks |-> "none"]
    /\ fresh = FALSE
    /\ offPuts = 0
    /\ onPuts = 0
    /\ puts = <<>>
    /\ calls = 0

\* main() from its first line to its return or, when it calls loop(), to the
\* first iteration of loop(), whose header row is then in the file.
Start(Args, content) ==
    /\ LET m == main(Args, content)
       IN  IF m.loop
           THEN /\ pc' = "open"
                /\ config' = m.config
                /\ log' = <<Header>>
                /\ UNCHANGED exitCode
           ELSE /\ pc' = "exited"
                /\ exitCode' = m.status
                /\ UNCHANGED <<config, log>>
    /\ UNCHANGED <<outputFile, lastTemp, lastIsCooling, thermostatData, hook, fresh,
                   offPuts, onPuts, puts, calls>>

\* The process runs main() on some command line and some file.
Main ==
    /\ pc = "main"
    /\ \E Args \in CommandLines, content \in FileContents : Start(Args, content)

\* ------------------------------------------------------------ specification
Next ==
    \/ OpenFile
    \/ \E r \in GetResponses : Get(r)
    \/ \E x \in PutExchanges : PutOff(x[1], x[2])
    \/ \E x \in PutExchanges : PutOn(x[1], x[2])
    \/ CloseFile
    \/ Sleep
    \/ \E g \in Ticks, w \in WebhookResponses : HookPost(g, w)
    \/ \E g \in Ticks, w \in WebhookResponses : HookGet(g, w)

Spec == Init /\ [][Next]_vars

\* The process from its start: main() and, when it calls loop(), the loop.
NextMain ==
    \/ Main
    \/ Next

SpecMain == InitMain /\ [][NextMain]_vars

\* The loop under scheduling that lets no goroutine wait forever: a step
\* that can be taken is taken, and a nestPut that can be answered with the
\* mode it wrote is, at some call, answered so.
SpecLive ==
    /\ Spec
    /\ WF_vars(Next)
    /\ SF_vars(\E x \in PutExchanges : PutOff(x[1], x[2]) /\ pc' \in {"on", "close"})
    /\ SF_vars(\E x \in PutExchanges : PutOn(x[1], x[2]) /\ pc' = "close")

\* ------------------------------------------------------------ properties
\* C1: a tick whose read succeeds enters the recovery sequence exactly when
\* the baseline is cooling, the sample is cooling and the sample's temperature
\* is strictly above the baseline's; in every other case (equal temperatures
\* included) it goes on to close the file with no nestPut issued and no
\* goroutine launched.
C1_RecoveryIffCoolingAndWarmer ==
    [][\A r \in GetResponses :
         (Get(r) /\ nestGet(r).kind = "ok") =>
            LET fault == /\ lastIsCooling
                         /\ r.data.IsCooling
                         /\ r.data.CurrentTemperature > lastTemp
            IN  /\ (pc' = "off") <=> fault
                /\ ~fault => /\ pc' = "close"
                             /\ offPuts' = 0 /\ onPuts' = 0
                             /\ hook' = hook
                             /\ log' = Append(log, SampleRow(r.data))]_vars

C1_Entered ==
    /\ pc = "off"
    /\ offPuts = 0
    /\ log = <<SampleRow(thermostatData), NoteRow("RESTARTING SYSTEM")>>
    /\ lastIsCooling
    /\ thermostatData.IsCooling
    /\ thermostatData.CurrentTemperature > lastTemp

\* C2: whenever a recovery sequence is entered, the baseline holds the cooling
\* flag and temperature of the sample obtained most recently before the one
\* just read (so never the seed), both samples report cooling, and the
\* temperature just read is strictly above the earlier one.
C2_EnteredOnTwoMostRecentSamples ==
    [][(pc = "get" /\ pc' = "off") =>
         /\ fresh
         /\ lastIsCooling
         /\ thermostatData'.IsCooling
         /\ thermostatData'.CurrentTemperature > lastTemp
         /\ Baseline' = Baseline]_vars

\* A recovery entered by the tick after a completed recovery.
C2_EnteredAfterRecovery ==
    /\ pc = "off"
    /\ offPuts = 0
    /\ outputFile.fd = 3
    /\ hook[2] = "done"

\* Rows of the current handle that carry the given note.
Rows(note) == {i \in DOMAIN log : log[i] = NoteRow(note)}

\* The texts of the errors nestGet and nestPut return.
ErrTexts ==
    {"Could not communicate with Nest", "Problem getting an answer from Nest",
     "Could not process JSON file from Nest"}

\* Rows logged for a failed nestPut in the shutoff loop, and in the restart loop.
OffErrorRows == UNION {Rows("Error turning system off:\n" \o e) : e \in ErrTexts}

OnErrorRows == UNION {Rows("Error turning system back on:\n" \o e) : e \in ErrTexts}

\* C3: in a recovery sequence whose shutoff loop saw no failed call, the
\* nestPut(off) calls number the "waiting on turn off" rows while the loop
\* runs, and one more once it has ended, when exactly one "system turned off"
\* row follows all of them; the same for the restart loop and its rows; and a
\* sequence that completes without any waiting or error row issued exactly
\* two nestPut calls.
C3_PutsAreWaitsPlusOne ==
    pc \in {"off", "on", "close"} =>
        /\ OffErrorRows = {} =>
             IF pc = "off"
             THEN /\ offPuts = Cardinality(Rows("RESTART: waiting on turn off"))
                  /\ Rows("RESTART: system turned off") = {}
             ELSE offPuts > 0 =>
                  /\ offPuts = Cardinality(Rows("RESTART: waiting on turn off")) + 1
                  /\ Cardinality(Rows("RESTART: system turned off")) = 1
                  /\ \A i \in Rows("RESTART: waiting on turn off"),
                        j \in Rows("RESTART: system turned off") : i < j
        /\ OnErrorRows = {} =>
             IF pc \in {"off", "on"}
             THEN /\ onPuts = Cardinality(Rows("RESTART: waiting on turn on"))
                  /\ Rows("RESTART: system turned on") = {}
             ELSE offPuts > 0 =>
                  /\ onPuts = Cardinality(Rows("RESTART: waiting on turn on")) + 1
                  /\ Cardinality(Rows("RESTART: system turned on")) = 1
                  /\ \A i \in Rows("RESTART: waiting on turn on"),
                        j \in Rows("RESTART: system turned on") : i < j
        /\ ( /\ pc = "close"
             /\ offPuts > 0
             /\ OffErrorRows = {} /\ OnErrorRows = {}
             /\ Rows("RESTART: waiting on turn off") = {}
             /\ Rows("RESTART: waiting on turn on") = {} ) => offPuts + onPuts = 2

\* A completed sequence whose shutoff needed one retry (N = 1) and whose
\* restart was confirmed at once (N = 0).
C3_OneWaitThenConfirmed ==
    /\ pc = "close"
    /\ OffErrorRows = {} /\ OnErrorRows = {}
    /\ Cardinality(Rows("RESTART: waiting on turn off")) = 1
    /\ Rows("RESTART: waiting on turn on") = {}
    /\ offPuts = 2
    /\ onPuts = 1

\* C4: a nestPut that fails at the transport level (no response) or with a
\* non-200 status is logged as an error row and leaves the sequencer in the
\* same loop, to issue the same write again.
C4_FailedPutIsLoggedAndRetried ==
    [][\A p \in {"neterr", "non200"} :
         /\ PutOff(p, NoExchange) =>
              /\ pc' = "off"
              /\ Cardinality(OffErrorRows') = Cardinality(OffErrorRows) + 1
         /\ PutOn(p, NoExchange) =>
              /\ pc' = "on"
              /\ Cardinality(OnErrorRows') = Cardinality(OnErrorRows) + 1]_vars

\* C5: a webhook call that fails, with no response or with a non-200 status,
\* on either webhook, leaves the main goroutine where it is: the sequence and
\* the poll loop go on.
C5_WebhookFailureLeavesLoopRunning ==
    [][\A g \in Ticks, w \in {"neterr", "redirects", "non200"} :
         (HookPost(g, w) \/ HookGet(g, w)) => (pc' = pc /\ log' = log)]_vars

\* C6: a tick whose read fails (transport, protocol or schema) leaves the
\* baseline as it was, appends exactly one row, with empty cooling and temp
\* fields and the error text as note, issues no nestPut and goes on to close
\* the file and sleep.
C6_FailedReadKeepsBaseline ==
    [][\A r \in GetResponses :
         (r.kind \in FailKinds /\ Get(r)) =>
            /\ lastIsCooling' = lastIsCooling
            /\ lastTemp' = lastTemp
            /\ Len(log') = Len(log) + 1
            /\ SubSeq(log', 1, Len(log)) = log
            /\ Len(log'[Len(log')]) = 4
            /\ log'[Len(log')][2] = ""
            /\ log'[Len(log')][3] = ""
            /\ log'[Len(log')][4] \in ErrTexts
            /\ offPuts' = 0 /\ onPuts' = 0
            /\ pc' = "close"]_vars

\* C7: for a 200 response that lacks the thermostat's path, or one of its
\* fields, nestGet returns an error and the tick logs it and goes on.
C7_SchemaProblemIsReturned ==
    [][\A r \in GetResponses :
         (r.kind \in {"nopath", "nofield"} /\ Get(r)) =>
            /\ nestGet(r).kind = "err"
            /\ pc' = "close"
            /\ log' = Append(log, NoteRow(nestGet(r).err))]_vars

\* C8: when a recovery sequence completes, the baseline is the cooling flag
\* and temperature of the sample a successful nestPut(original mode) returned
\* with the original mode.
C8_BaselineIsConfirmedOnSample ==
    [][\A x \in PutExchanges :
         (PutOn(x[1], x[2]) /\ pc' = "close") =>
            /\ nestPut(x[1], x[2]).kind = "ok"
            /\ x[2].data.HvacMode = thermostatData.HvacMode
            /\ lastIsCooling' = x[2].data.IsCooling
            /\ lastTemp' = x[2].data.CurrentTemperature]_vars

\* C9: after a tick whose read succeeds and which does not enter recovery,
\* the baseline is exactly the cooling flag and temperature of the sample read.
C9_BaselineAdvancesToSample ==
    [][\A r \in GetResponses :
         (Get(r) /\ nestGet(r).kind = "ok" /\ pc' # "off") =>
            /\ lastIsCooling' = r.data.IsCooling
            /\ lastTemp' = r.data.CurrentTemperature]_vars

\* A tick that read a cooler sample against a cooling baseline: no recovery,
\* and the baseline is now that sample.
C9_AdvancedWithoutRecovery ==
    /\ pc = "close"
    /\ offPuts = 0
    /\ outputFile.fd = 2
    /\ log = <<SampleRow([CurrentTemperature |-> 0, HvacMode |-> "cool", IsCooling |-> TRUE])>>
    /\ lastIsCooling
    /\ lastTemp = 0

\* C10: once the loop has started the process is always in a tick, in a
\* recovery sequence or asleep: it never terminates.
C10_NeverTerminates == pc \in {"open", "get", "off", "on", "close", "sleep"}


\* ------------------------------------------------------------ start-up
\* main() found an error on this command line and this file: it returns
\* without calling loop(), and not because help was asked for.
StartupError(Args, content) ==
    /\ ~main(Args, content).loop
    /\ ~(Len(Args) = 2 /\ Args[2] \in allowedSingles)

\* C11: when main() finds a configuration or validation error (no argument,
\* an unrecognized argument, an unreadable or unparseable config file, no
\* thermostat id, no token, minutes not a number or below 1, an invalid
\* webhook URL) the process exits with a non-zero status and loop() is not
\* started.
C11_ErrorExitsNonZero ==
    [][pc = "main" =>
        \A Args \in CommandLines, content \in FileContents :
            (Start(Args, content) /\ StartupError(Args, content))
                => (pc' = "exited" /\ exitCode' > 0)]_vars

\* C19: whenever loop() runs, config.Minutes is at least 1, whatever the
\* command line and the config file held, and no step of the loop changes it.
C19_IntervalAtLeastOneMinute ==
    /\ [](pc \notin {"main", "exited"} => config.Minutes >= 1)
    /\ [][pc # "main" => config'.Minutes = config.Minutes]_vars

\* The loop has gone through a tick with an interval that is not the default.
C19_PollingWithOverride == pc = "sleep" /\ config.Minutes = 3


\* ------------------------------------------------------------ the log
\* The rows of the recovery sequence and of its webhook goroutine.
EventRows ==
    {NoteRow(n) : n \in {"RESTARTING SYSTEM", "RESTART: waiting on turn off",
                         "RESTART: system turned off", "RESTART: waiting on turn on",
                         "RESTART: system turned on", "webhook-post performed",
                         "webhook-get performed"}}
        \cup {NoteRow("Error turning system off:\n" \o e) : e \in ErrTexts}
        \cup {NoteRow("Error turning system back on:\n" \o e) : e \in ErrTexts}

\* The record of a read: the sample's two fields after the time stamp and no
\* note, or two empty fields and the error's text.
ReadRecord(res) ==
    IF res.kind = "ok"
    THEN <<timeAsStr, IF res.data.IsCooling THEN "true" ELSE "false",
           FmtInt(res.data.CurrentTemperature)>>
    ELSE <<timeAsStr, "", "", res.err>>

\* C12: the read of a tick appends exactly one record, which holds the
\* sample's cooling flag and temperature and no note, or, for a failed read,
\* two empty fields and the error's text as note; every other row a tick
\* appends is a row of the recovery sequence; and no step alters or removes a
\* row already written through the open handle.
C12_TickAppendsItsReadRecord ==
    [][/\ \A r \in GetResponses :
            Get(r) => /\ Len(log') > Len(log)
                      /\ log'[Len(log) + 1] = ReadRecord(nestGet(r))
                      /\ \A i \in (Len(log) + 2) .. Len(log') : log'[i] \in EventRows
       /\ pc \notin {"main", "open"} =>
            /\ Len(log') >= Len(log)
            /\ SubSeq(log', 1, Len(log)) = log
            /\ pc # "get" => \A i \in (Len(log) + 1) .. Len(log') : log'[i] \in EventRows]_vars


\* ------------------------------------------------------------ recovery sequence
\* C13: in a recovery sequence no nestPut(original mode) is issued before a
\* nestPut("off") of that sequence returned, without error, a sample whose
\* mode is "off", and no nestPut("off") is issued once a nestPut(original
\* mode) has been. A step that counts one more onPuts (offPuts) is a call of
\* nestPut with the original mode (with "off").
C13_OffConfirmedBeforeOn ==
    [][/\ onPuts' = onPuts + 1 =>
            offPuts > 0 /\ Rows("RESTART: system turned off") # {}
       /\ offPuts' = offPuts + 1 => onPuts = 0
       /\ (pc = "off" /\ pc' \in {"on", "close"}) =>
            \E x \in PutExchanges :
                /\ nestPut(x[1], x[2]).kind = "ok"
                /\ nestPut(x[1], x[2]).data.HvacMode = "off"
                /\ PutOff(x[1], x[2])]_vars

\* The restart loop is at its second call after a shutoff loop that needed
\* more than one call.
C13_RestartingAfterWaits == pc = "on" /\ offPuts >= 2 /\ onPuts >= 1


\* C14: every nestPut of the restart loop is called with the mode of the
\* sample whose read entered the recovery sequence; that sample is not
\* assigned while the sequence runs, so the mode is the same at every retry
\* and is never the mode of a sample a nestPut returned.
C14_RestartWritesOriginalMode ==
    [][/\ (pc = "get" /\ pc' = "off") =>
            \E r \in GetResponses :
                /\ nestGet(r).kind = "ok"
                /\ thermostatData' = r.data
                /\ Get(r)
       /\ pc \in {"off", "on"} => thermostatData' = thermostatData
       /\ onPuts' = onPuts + 1 => puts' = Append(puts, thermostatData.HvacMode)]_vars

\* A restart write is retried after a reply whose mode was another one.
C14_RetriedRestart ==
    /\ pc = "on"
    /\ onPuts >= 2
    /\ puts[Len(puts)] = "cool"
    /\ Rows("RESTART: waiting on turn on") # {}


\* C15: every recovery sequence that is entered completes, the loop going on
\* to close the file and sleep, whatever replies and failures come first, as
\* long as calls remain to be made.
C15_RecoveryCompletes ==
    (pc = "off") ~> (pc = "close" \/ calls = MaxCalls)


\* C17: neither confirmation loop ends on a nestPut that returned an error:
\* the shutoff loop ends only on a call that returned, without error, a
\* sample whose mode is "off", and the restart loop only on a call that
\* returned, without error, a sample whose mode is the original mode,
\* whatever the original mode is (the empty string included).
C17_LoopsEndOnConfirmedMode ==
    [][/\ (pc = "off" /\ pc' \in {"on", "close"}) =>
            \E x \in PutExchanges :
                /\ nestPut(x[1], x[2]).kind = "ok"
                /\ nestPut(x[1], x[2]).data.HvacMode = "off"
                /\ PutOff(x[1], x[2])
       /\ (pc = "on" /\ pc' = "close") =>
            \E x \in PutExchanges :
                /\ nestPut(x[1], x[2]).kind = "ok"
                /\ nestPut(x[1], x[2]).data.HvacMode = thermostatData.HvacMode
                /\ PutOn(x[1], x[2])]_vars

\* ------------------------------------------------------------ webhook goroutine and loop
\* C16: the loop never waits for the webhook goroutine: wherever the loop
\* stands in a recovery sequence or at the end of an iteration, its next step
\* can be taken, whether or not a webhook call of any goroutine is still to
\* be made or answered.
C16_SequencerNeverWaits ==
    /\ (pc = "off" /\ calls < MaxCalls) => ENABLED (\E x \in PutExchanges : PutOff(x[1], x[2]))
    /\ (pc = "on" /\ calls < MaxCalls) => ENABLED (\E x \in PutExchanges : PutOn(x[1], x[2]))
    /\ pc = "close" => ENABLED CloseFile
    /\ pc = "sleep" => ENABLED Sleep

\* Both orders at once: the goroutine of iteration 2 has not made its POST
\* although that iteration confirmed off and on, closed the file and slept,
\* and the goroutine of iteration 3 has made its calls before the first
\* nestPut("off") of that iteration.
C16_BothOrders ==
    /\ config.WebhookPost # ""
    /\ outputFile.fd = 3
    /\ pc = "off"
    /\ offPuts = 0
    /\ hook[2] = "post"
    /\ hook[3] = "done"


\* C18: a row the webhook goroutine writes goes through the handle opened by
\* the iteration that launched the goroutine, while that handle is open:
\* never after that iteration's Close, never through the handle of a later
\* iteration. A step of the goroutine launched by iteration g is one that
\* moves hook[g] on from "post" or "get".
C18_NotifierWritesThroughItsHandle ==
    [][\A g \in Ticks :
        (hook[g] \in {"post", "get"} /\ hook'[g] # hook[g] /\ log' # log)
            => (outputFile.fd = g /\ ~outputFile.closed)]_vars

====
